---- MODULE Spec2Model ----
(***************************************************************************)
(* Model of the task-set engine of stm_automator: the sweep expansion      *)
(* TaskSet.create_tasks, the TaskSet status / progress-bar state and the   *)
(* operations setStatus, set_completed, setIndex and update_task_bar       *)
(* (src/src/ui/native/taskset.py).                                         *)
(*                                                                         *)
(* SpecExpand constructs a TaskSet for every specification of a broad      *)
(* family and is the specification of the properties of the expansion;     *)
(* Spec constructs the TaskSets of a narrow family (0, 1, 2, ... items)    *)
(* and then calls their operations in every order.                         *)
(*                                                                         *)
(* Numbers.  The physical quantities are decimal numbers entered as        *)
(* mantissa/exponent pairs.  A Python float is modelled by the exact       *)
(* decimal it stands for, as an integer count of units of 10^MinExp.       *)
(* A progress value (the quotient of two list lengths) is modelled by the  *)
(* reduced fraction <<numerator, denominator>>.                            *)
(***************************************************************************)
EXTENDS Integers, Sequences, FiniteSets, TLC

\* ------------------------------------------------------------------ bounds
\* sweep_start / sweep_stop mantissas range over -MaxEnd..MaxEnd (exponent 0)
MaxEnd == 1
\* sweep_step mantissas range over -MaxStepMant..MaxStepMant
MaxStepMant == 5
\* repetitions ranges over 1..MaxRepetitions
MaxRepetitions == 2
\* the task sets that are operated on sweep 0 .. m by 1 for m up to MaxLiveStop
MaxLiveStop == 4
\* index handed to the constructor / setIndex ranges over 0..MaxIndex
MaxIndex == 1
\* the step voltages entered are -MaxUiStep .. MaxUiStep tenths of a volt
MaxUiStep == 3

\* entered numbers have at most Digits decimal places
Digits == 1

\* smallest decimal exponent of an entered number: one unit is 10^MinExp
MinExp == -Digits

\* --------------------------------------------------------------- helpers
RECURSIVE Pow10(_)
Pow10(n) == IF n <= 0 THEN 1 ELSE 10 * Pow10(n - 1)

Abs(x) == IF x < 0 THEN -x ELSE x

RECURSIVE Gcd(_, _)
Gcd(a, b) == IF b = 0 THEN Abs(a) ELSE Gcd(b, a % Abs(b))

\* floor and ceiling of the exact quotient a / b, b # 0
FloorDiv(a, b) == IF b > 0 THEN a \div b ELSE (-a) \div (-b)
CeilDiv(a, b) == -FloorDiv(-a, b)

\* the float a / b of two list lengths, b > 0
TrueDiv(a, b) == <<a \div Gcd(a, b), b \div Gcd(a, b)>>

FracLE(x, y) == x[1] * y[2] <= y[1] * x[2]
FracMin(x, y) == IF FracLE(x, y) THEN x ELSE y
FracMax(x, y) == IF FracLE(x, y) THEN y ELSE x
Zero == <<0, 1>>
One == <<1, 1>>

\* ---------------------------------------------------- ExponentialNumber
\* mantissa * 10^exponent, resolved to a number (in units of 10^MinExp)
to_float(en) == en[1] * Pow10(en[2] - MinExp)

\* a number (in units of 10^MinExp) normalised to <<mantissa, exponent>>
RECURSIVE Normalise(_, _)
Normalise(m, e) ==
    IF m = 0 THEN <<0, 0>>
    ELSE IF m % 10 = 0 THEN Normalise(m \div 10, e + 1)
    ELSE <<m, e>>

from_float(x) == Normalise(x, MinExp)

\* ------------------------------------------------------------- np.arange
\* number of elements of np.arange(start, stop, step), step # 0
arange_len(start, stop, step) ==
    LET n == CeilDiv(stop - start, step) IN IF n <= 0 THEN 0 ELSE n

\* variant of arange that numbers the elements from 1: element i is
\* start + (i + 1)*delta
arange_from_one(start, stop, step) ==
    LET delta == (start + step) - start
    IN  [k \in 1..arange_len(start, stop, step) |-> start + k * delta]

\* np.arange(start, stop, step): element i (0-based) is start + i*delta with
\* delta = (start + step) - start
arange(start, stop, step) ==
    LET delta == (start + step) - start
    IN  [k \in 1..arange_len(start, stop, step) |-> start + (k - 1) * delta]

\* --------------------------------------------------------------- TaskSet
Status == {"Ready", "Working", "Finished", "Error"}
Terminal == {"Finished", "Error"}
SweepParameter == {"none", "bias", "size"}

\* default of TaskData.completed
TaskData_completed_default == FALSE

\* ImageData(data): the image parameters copied from the task-set data
ImageData(data) == [bias |-> data.bias, size |-> data.size]

TaskData(inner, dtype, completed) ==
    [inner |-> inner, dtype |-> dtype, completed |-> completed]

\* variant of create_tasks whose unswept branch appends one item per repetition
create_tasks_repeated(data) ==
    LET rng == arange(to_float(data.sweep_start),
                      to_float(data.sweep_stop) + to_float(data.sweep_step),
                      to_float(data.sweep_step))
    IN  CASE data.sweep_parameter = "none" ->
               [k \in 1..data.repetitions |->
                   TaskData(ImageData(data), "Image", TaskData_completed_default)]
          [] data.sweep_parameter = "bias" ->
               [k \in 1..Len(rng) |->
                   TaskData([ImageData(data) EXCEPT !.bias = from_float(rng[k])],
                            "Image", FALSE)]
          [] data.sweep_parameter = "size" ->
               [k \in 1..Len(rng) |->
                   TaskData([ImageData(data) EXCEPT !.size = from_float(rng[k])],
                            "Image", TaskData_completed_default)]

create_tasks(data) ==
    LET rng == arange(to_float(data.sweep_start),
                      to_float(data.sweep_stop) + to_float(data.sweep_step),
                      to_float(data.sweep_step))
    IN  CASE data.sweep_parameter = "none" ->
               <<TaskData(ImageData(data), "Image", TaskData_completed_default)>>
          [] data.sweep_parameter = "bias" ->
               [k \in 1..Len(rng) |->
                   TaskData([ImageData(data) EXCEPT !.bias = from_float(rng[k])],
                            "Image", FALSE)]
          [] data.sweep_parameter = "size" ->
               [k \in 1..Len(rng) |->
                   TaskData([ImageData(data) EXCEPT !.size = from_float(rng[k])],
                            "Image", TaskData_completed_default)]

clamp10(value) == FracMax(FracMin(value, One), Zero)

\* TaskSetBar.__init__(value = 0.0)
TaskSetBar_init == clamp10(Zero)

\* variant of TaskSetInfo.__init__ that skips the first task
TaskSetInfo_init_skipping(ts) == [k \in 1..Len(ts) - 1 |-> k + 1]

\* TaskSetInfo.__init__: one TaskItem per task, in order; a TaskItem holds a
\* reference to its TaskData, modelled as the task's position in self.tasks
TaskSetInfo_init(tasks) == [k \in 1..Len(tasks) |-> k]

\* ------------------------------------------------------------------ state
VARIABLES
    data,        \* the TaskSetData handed to the constructor
    pc,          \* "start": before __init__; "live": the TaskSet exists;
                 \* "failed": __init__ raised
    status,      \* TaskSet.status
    index,       \* TaskSet.index
    tasks,       \* TaskSet.tasks: the TaskData objects, in order
    task_items,  \* TaskSet._info.task_items: references into tasks
    value,       \* TaskSet._task_bar.value
    raised,      \* exception raised by the last call ("none" if it returned)
    last,        \* the last call: [op |-> name, arg |-> its argument]
    lifecycle    \* "new": setStatus not yet called; "set": called;
                 \* "terminal": the status has at some time been Finished or Error

\* the estimate inputs and labels of Ui_MainWindow (src/src/ui/app.py)
VARIABLES
    start_voltage,    \* start_voltage.value
    stop_voltage,     \* stop_voltage.value
    step_voltage,     \* step_voltage.value
    repetitions,      \* repetitions.value()
    line_time,        \* line_time.value
    lines_per_frame,  \* lines_per_frame.currentIndex()
    total_images,     \* total_images.text()
    time_to_finish    \* time_to_finish.text()

uiVars == <<start_voltage, stop_voltage, step_voltage, repetitions, line_time,
            lines_per_frame, total_images, time_to_finish>>

vars == <<data, pc, status, index, tasks, task_items, value, raised, last, lifecycle,
          start_voltage, stop_voltage, step_voltage, repetitions, line_time,
          lines_per_frame, total_images, time_to_finish>>

\* no window: the runs over a TaskSet alone leave the window's state aside
NoWindow ==
    /\ start_voltage = <<0, 0>> /\ stop_voltage = <<0, 0>> /\ step_voltage = <<0, 0>>
    /\ repetitions = 0 /\ line_time = <<0, 0>> /\ lines_per_frame = 0
    /\ total_images = <<>> /\ time_to_finish = <<>>

\* base parameters of the specifications explored
BaseBias == <<2, 0>>
BaseSize == <<3, 0>>

SweepEnds == {<<m, 0>> : m \in -MaxEnd..MaxEnd}
SweepSteps == {<<m, e>> : m \in -MaxStepMant..MaxStepMant, e \in MinExp..0}

\* np.arange raises when the step is zero (the length is a division by it)
ZeroStep(d) == d.sweep_parameter # "none" /\ to_float(d.sweep_step) = 0
ZeroStepErrors == {"ZeroDivisionError", "ValueError"}

\* the specifications whose expansion is examined
TaskSetDataInputs ==
    [sweep_parameter : SweepParameter,
     sweep_start : SweepEnds, sweep_stop : SweepEnds,
     sweep_step : SweepSteps, repetitions : 1..MaxRepetitions,
     bias : {BaseBias}, size : {BaseSize}]

\* the specifications of the task sets that are operated on: unswept, or
\* swept from 0 to -1, 0, 1, ... by 1 (no, one, two, ... items), or by 0
LiveInputs ==
    [sweep_parameter : SweepParameter,
     sweep_start : {<<0, 0>>},
     sweep_stop : {<<m, 0>> : m \in -1..MaxLiveStop},
     sweep_step : {<<0, 0>>, <<1, 0>>}, repetitions : {1},
     bias : {BaseBias}, size : {BaseSize}]

\* variant of the constructor that starts the set as Working
TaskSet_init_working(d, idx) ==
    LET ts == create_tasks(d)
    IN  [status |-> "Working", index |-> idx, tasks |-> ts,
         task_items |-> TaskSetInfo_init(ts), value |-> TaskSetBar_init]

\* TaskSet.__init__(name, data, idx, dropFunc), when create_tasks returns
TaskSet_init(d, idx) ==
    LET ts == create_tasks(d)
    IN  [status |-> "Ready", index |-> idx, tasks |-> ts,
         task_items |-> TaskSetInfo_init(ts), value |-> TaskSetBar_init]

\* variant of create_tasks that has handed out an item when np.arange raises
create_tasks_raised_partial(d) ==
    <<TaskData(ImageData(d), "Image", TaskData_completed_default)>>

\* the Work Items that reach the caller when np.arange raises in
\* create_tasks: none, the list is a local that is never returned and the
\* range is computed before the first append
create_tasks_raised(d) == <<>>

\* before the constructor runs: its data argument is chosen
Start(inputs) ==
    /\ data \in inputs
    /\ pc = "start"
    /\ last = [op |-> "none", arg |-> <<>>]
    /\ lifecycle = "new"
    /\ raised = "none"
    /\ status = "None" /\ index = -1 /\ tasks = <<>>
    /\ task_items = <<>> /\ value = Zero
    /\ NoWindow

Init == Start(LiveInputs)

InitExpand == Start(TaskSetDataInputs)

\* ---------------------------------------------------------------- actions
\* TaskSet(name, data, idx, dropFunc): the constructor returns the new
\* TaskSet, or create_tasks raises and no TaskSet comes into existence
Construct(idx) ==
    /\ pc = "start"
    /\ last' = [op |-> "__init__", arg |-> idx]
    /\ IF ZeroStep(data)
       THEN /\ pc' = "failed"
            /\ raised' \in ZeroStepErrors
            /\ tasks' = create_tasks_raised(data)
            /\ UNCHANGED <<status, index, task_items, value>>
       ELSE LET t == TaskSet_init(data, idx)
            IN  /\ pc' = "live"
                /\ raised' = "none"
                /\ status' = t.status /\ index' = t.index /\ tasks' = t.tasks
                /\ task_items' = t.task_items /\ value' = t.value
    /\ UNCHANGED <<data, lifecycle>>
    /\ UNCHANGED uiVars

\* the completed TaskItems, as update_task_bar collects them
completed_tasks(its, ts) == {k \in 1..Len(its) : ts[its[k]].completed}

\* variant of update_task_bar with the quotient inverted
update_task_bar_inverted(its, ts) ==
    IF Cardinality(completed_tasks(its, ts)) = 0
    THEN [raised |-> "ZeroDivisionError"]
    ELSE [raised |-> "none",
          val |-> TrueDiv(Len(its), Cardinality(completed_tasks(its, ts)))]

\* TaskSet.update_task_bar: the new bar value, or the exception raised
update_task_bar(its, ts) ==
    IF Len(its) = 0
    THEN [raised |-> "ZeroDivisionError"]
    ELSE [raised |-> "none",
          val |-> TrueDiv(Cardinality(completed_tasks(its, ts)), Len(its))]

\* variant of setStatus that keeps a Finished or Error status
setStatus_status_guarded(cur, s) == IF cur \in Terminal THEN cur ELSE s

\* the status TaskSet.setStatus(s) stores
setStatus_status(cur, s) == s

\* TaskSet.setStatus(s)
setStatus(s) ==
    /\ pc = "live"
    /\ status' = setStatus_status(status, s)
    /\ LET r == update_task_bar(task_items, tasks)
       IN  /\ raised' = r.raised
           /\ value' = IF r.raised = "none" THEN r.val ELSE value
    /\ lifecycle' = IF lifecycle = "terminal" \/ status' \in Terminal
                    THEN "terminal" ELSE "set"
    /\ last' = [op |-> "setStatus", arg |-> s]
    /\ UNCHANGED <<data, pc, index, tasks, task_items>>
    /\ UNCHANGED uiVars

\* variant of set_completed that marks the set Finished with its last item
set_completed_effect_finishing(st, k, val) ==
    LET ts == [st.tasks EXCEPT ![st.task_items[k]].completed = val]
    IN  [st EXCEPT !.tasks = ts,
                   !.status = IF \A j \in 1..Len(ts) : ts[j].completed
                              THEN "Finished" ELSE st.status]

\* the TaskSet state TaskItem.set_completed(val) on item k leaves behind
set_completed_effect(st, k, val) ==
    [st EXCEPT !.tasks[st.task_items[k]].completed = val]

\* TaskItem.set_completed(val) on the k-th displayed item
set_completed(k, val) ==
    /\ pc = "live"
    /\ k \in 1..Len(task_items)
    /\ LET st == set_completed_effect(
                    [status |-> status, index |-> index, tasks |-> tasks,
                     value |-> value, task_items |-> task_items], k, val)
       IN  /\ status' = st.status /\ index' = st.index /\ tasks' = st.tasks
           /\ value' = st.value /\ task_items' = st.task_items
    /\ raised' = "none"
    /\ last' = [op |-> "set_completed", arg |-> <<k, val>>]
    /\ UNCHANGED <<data, pc, lifecycle>>
    /\ UNCHANGED uiVars

\* TaskSet.setIndex(i)
setIndex(i) ==
    /\ pc = "live"
    /\ index' = i
    /\ raised' = "none"
    /\ last' = [op |-> "setIndex", arg |-> i]
    /\ UNCHANGED <<data, pc, status, tasks, task_items, value, lifecycle>>
    /\ UNCHANGED uiVars

\* TaskSet.update_task_bar() called on its own
UpdateTaskBar ==
    /\ pc = "live"
    /\ LET r == update_task_bar(task_items, tasks)
       IN  /\ raised' = r.raised
           /\ value' = IF r.raised = "none" THEN r.val ELSE value
    /\ last' = [op |-> "update_task_bar", arg |-> <<>>]
    /\ UNCHANGED <<data, pc, status, index, tasks, task_items, lifecycle>>
    /\ UNCHANGED uiVars

\* TaskSet.dropSelf(): hands the index to dropFunc, the owner's callback
dropSelf ==
    /\ pc = "live"
    /\ raised' = "none"
    /\ last' = [op |-> "dropSelf", arg |-> index]
    /\ UNCHANGED <<data, pc, status, index, tasks, task_items, value, lifecycle>>
    /\ UNCHANGED uiVars

Next ==
    \/ \E idx \in 0..MaxIndex : Construct(idx)
    \/ \E s \in Status : setStatus(s)
    \/ \E k \in 1..Len(task_items), val \in BOOLEAN : set_completed(k, val)
    \/ \E i \in 0..MaxIndex : setIndex(i)
    \/ UpdateTaskBar
    \/ dropSelf

Spec == Init /\ [][Next]_vars

NextExpand == \E idx \in 0..MaxIndex : Construct(idx)

SpecExpand == InitExpand /\ [][NextExpand]_vars

TypeOK ==
    /\ pc \in {"start", "live", "failed", "window"}
    /\ pc = "live" => status \in Status
    /\ raised \in {"none", "ZeroDivisionError", "ValueError"}

\* ------------------------------------------------------- Ui_MainWindow
RECURSIVE Pow2(_)
Pow2(n) == IF n <= 0 THEN 1 ELSE 2 * Pow2(n - 1)

\* the items of the lines_per_frame combo box: 2^3 .. 2^12
LinesPerFrameItems == [i \in 0..9 |-> Pow2(i + 3)]

\* the values the widgets are constructed with
DefaultStartVoltage == <<2, -1>>
DefaultStopVoltage == <<1, 0>>
DefaultStepVoltage == <<1, -1>>
DefaultRepetitions == 1
DefaultLineTime == <<1, 0>>
DefaultLinesIndex == 5

\* the values entered into the widgets
UiVoltages == {<<2, -1>>, <<1, 0>>, <<0, 0>>, <<-1, 0>>}
UiSteps == {<<m, -1>> : m \in -MaxUiStep..MaxUiStep}
UiLineTimes == {<<1, 0>>, <<1, -1>>, <<1, 2>>}
UiLinesIndexes == {0, 5, 7}

\* one second, in the unit of to_float
Second == Pow10(-MinExp)

\* N of update_total_images / update_time_to_finish:
\* abs((start - stop) // step) * repetitions, step # 0
image_count(sv, ev, st, reps) ==
    Abs(FloorDiv(to_float(sv) - to_float(ev), to_float(st))) * reps

\* total_time of update_time_to_finish, in units of 10^MinExp seconds
total_time(lt, lpf, n) == 2 * to_float(lt) * LinesPerFrameItems[lpf] * n

\* variant of the rendering that does not take the hours out of the minutes
time_text_minutes_of_day(t) ==
    LET days == t \div (24 * 3600 * Second)
        hours == (t \div (60 * 60 * Second)) - 24 * days
        mins == (t \div (60 * Second)) - 60 * 24 * days
        secs == (t \div Second) - 60 * 60 * 24 * days - 60 * 60 * hours - 60 * mins
    IN  IF days > 0
        THEN << <<days, "d">>, <<hours, "h">>, <<mins, "m">>, <<secs, "s">> >>
        ELSE << <<hours, "h">>, <<mins, "m">>, <<secs, "s">> >>

\* the rendered duration of update_time_to_finish: the numbers and their
\* unit letters, in order
time_text(t) ==
    LET days == t \div (24 * 3600 * Second)
        hours == (t \div (60 * 60 * Second)) - 24 * days
        mins == (t \div (60 * Second)) - 60 * 24 * days - 60 * hours
        secs == (t \div Second) - 60 * 60 * 24 * days - 60 * 60 * hours - 60 * mins
    IN  IF days > 0
        THEN << <<days, "d">>, <<hours, "h">>, <<mins, "m">>, <<secs, "s">> >>
        ELSE << <<hours, "h">>, <<mins, "m">>, <<secs, "s">> >>

\* the window's estimate state as one record
Ui == [start_voltage |-> start_voltage, stop_voltage |-> stop_voltage,
       step_voltage |-> step_voltage, repetitions |-> repetitions,
       line_time |-> line_time, lines_per_frame |-> lines_per_frame,
       total_images |-> total_images, time_to_finish |-> time_to_finish,
       raised |-> "none"]

\* Ui_MainWindow.update_time_to_finish: the floor division raises on a zero
\* step before the label is touched
update_time_to_finish(ui) ==
    IF to_float(ui.step_voltage) = 0
    THEN [ui EXCEPT !.raised = "ZeroDivisionError"]
    ELSE LET n == image_count(ui.start_voltage, ui.stop_voltage,
                              ui.step_voltage, ui.repetitions)
         IN  [ui EXCEPT !.time_to_finish =
                 <<"Time to finish", time_text(total_time(ui.line_time, ui.lines_per_frame, n))>>]

\* Ui_MainWindow.update_total_images
update_total_images(ui) ==
    IF to_float(ui.step_voltage) = 0
    THEN [ui EXCEPT !.raised = "ZeroDivisionError"]
    ELSE [ui EXCEPT !.total_images =
             <<"Total images", image_count(ui.start_voltage, ui.stop_voltage,
                                           ui.step_voltage, ui.repetitions)>>]

\* variant of setup_connections without repetitions -> update_total_images
connections_time_only(signal) ==
    CASE signal \in {"lines_per_frame", "line_time", "scan_size", "repetitions"} ->
           <<"update_time_to_finish">>
      [] signal \in {"start_voltage", "stop_voltage", "step_voltage"} ->
           <<"update_time_to_finish", "update_total_images">>

\* Ui_MainWindow.setup_connections: the estimate slots of each signal, in the
\* order they are connected (update_scan_size ends in update_time_to_finish)
connections(signal) ==
    CASE signal \in {"lines_per_frame", "line_time", "scan_size"} ->
           <<"update_time_to_finish">>
      [] signal \in {"start_voltage", "stop_voltage", "step_voltage", "repetitions"} ->
           <<"update_time_to_finish", "update_total_images">>

\* the slots of a signal run one after the other; a slot that raises does
\* not keep the later ones from running
RECURSIVE RunSlots(_, _)
RunSlots(slots, ui) ==
    IF slots = <<>> THEN ui
    ELSE RunSlots(Tail(slots),
                  IF Head(slots) = "update_time_to_finish"
                  THEN update_time_to_finish(ui) ELSE update_total_images(ui))

\* the window takes the state ui
UiBecomes(ui) ==
    /\ start_voltage' = ui.start_voltage /\ stop_voltage' = ui.stop_voltage
    /\ step_voltage' = ui.step_voltage /\ repetitions' = ui.repetitions
    /\ line_time' = ui.line_time /\ lines_per_frame' = ui.lines_per_frame
    /\ total_images' = ui.total_images /\ time_to_finish' = ui.time_to_finish
    /\ raised' = ui.raised

taskSetVars == <<data, pc, status, index, tasks, task_items, value, lifecycle>>

\* a widget takes a new value and its signal's slots run
Changed(signal, ui) ==
    /\ pc = "window"
    /\ UiBecomes(RunSlots(connections(signal), ui))
    /\ last' = [op |-> signal, arg |-> <<>>]
    /\ UNCHANGED taskSetVars

SetStartVoltage(v) == Changed("start_voltage", [Ui EXCEPT !.start_voltage = v])
SetStopVoltage(v) == Changed("stop_voltage", [Ui EXCEPT !.stop_voltage = v])
SetStepVoltage(v) == Changed("step_voltage", [Ui EXCEPT !.step_voltage = v])
SetRepetitions(r) == Changed("repetitions", [Ui EXCEPT !.repetitions = r])
SetLineTime(v) == Changed("line_time", [Ui EXCEPT !.line_time = v])
SetLinesPerFrame(i) == Changed("lines_per_frame", [Ui EXCEPT !.lines_per_frame = i])
\* scan_size changes: update_scan_size resizes the scan rectangle and calls
\* update_time_to_finish
SetScanSize == Changed("scan_size", Ui)

\* Ui_MainWindow.add_task: the TaskData handed to task_list.add_task
add_task ==
    /\ pc = "window"
    /\ last' = [op |-> "add_task",
                arg |-> [repetitions |-> repetitions,
                         total_images |-> total_images[2],
                         time_to_finish |-> time_to_finish[2],
                         lines_per_frame |-> LinesPerFrameItems[lines_per_frame],
                         line_time |-> line_time,
                         start_voltage |-> start_voltage,
                         stop_voltage |-> stop_voltage,
                         step_voltage |-> step_voltage]]
    /\ raised' = "none"
    /\ UNCHANGED taskSetVars
    /\ UNCHANGED uiVars

\* Ui_MainWindow.__init__: the widgets take their defaults, then
\* update_total_images() and update_time_to_finish() fill the labels
InitUi ==
    /\ data = "None" /\ pc = "window" /\ lifecycle = "new"
    /\ status = "None" /\ index = -1 /\ tasks = <<>>
    /\ task_items = <<>> /\ value = Zero
    /\ last = [op |-> "Ui_MainWindow", arg |-> <<>>]
    /\ LET ui == update_time_to_finish(update_total_images(
                    [start_voltage |-> DefaultStartVoltage,
                     stop_voltage |-> DefaultStopVoltage,
                     step_voltage |-> DefaultStepVoltage,
                     repetitions |-> DefaultRepetitions,
                     line_time |-> DefaultLineTime,
                     lines_per_frame |-> DefaultLinesIndex,
                     total_images |-> <<"Total images">>,
                     time_to_finish |-> <<"Time to finish">>,
                     raised |-> "none"]))
       IN  /\ start_voltage = ui.start_voltage /\ stop_voltage = ui.stop_voltage
           /\ step_voltage = ui.step_voltage /\ repetitions = ui.repetitions
           /\ line_time = ui.line_time /\ lines_per_frame = ui.lines_per_frame
           /\ total_images = ui.total_images /\ time_to_finish = ui.time_to_finish
           /\ raised = ui.raised

NextUi ==
    \/ \E v \in UiVoltages : SetStartVoltage(v)
    \/ \E v \in UiVoltages : SetStopVoltage(v)
    \/ \E v \in UiSteps : SetStepVoltage(v)
    \/ \E r \in 1..MaxRepetitions : SetRepetitions(r)
    \/ \E v \in UiLineTimes : SetLineTime(v)
    \/ \E i \in UiLinesIndexes : SetLinesPerFrame(i)
    \/ SetScanSize
    \/ add_task

SpecUi == InitUi /\ [][NextUi]_vars

\* ------------------------------------------------------------ properties
Live == pc = "live"
Swept == data.sweep_parameter \in {"bias", "size"}
start == to_float(data.sweep_start)
stop == to_float(data.sweep_stop)
step == to_float(data.sweep_step)
\* the swept field of the k-th Work Item, resolved to a number
swept_value(k) ==
    IF data.sweep_parameter = "bias" THEN to_float(tasks[k].inner.bias)
    ELSE to_float(tasks[k].inner.size)
completedCount == Cardinality({k \in 1..Len(tasks) : tasks[k].completed})

C2_ReadyUntilSetStatus ==
    (Live /\ lifecycle = "new") => status = "Ready"

\* a set on which other operations, but never setStatus, have been called
C2_Witness ==
    /\ Live /\ lifecycle = "new" /\ status = "Ready"
    /\ last.op = "set_completed" /\ completedCount > 0

\* C3: on a TaskSet without Work Items the progress computation returns 0
\* and does not raise.
C3_EmptyProgressIsZero ==
    (Live /\ Len(task_items) = 0 /\ last.op \in {"setStatus", "update_task_bar"})
        => (raised = "none" /\ value = Zero)

\* C4: on a TaskSet with at least one Work Item the bar's value is always
\* (completed items) / (all items).
C4_BarTracksCompletion ==
    (Live /\ Len(tasks) > 0) => value = TrueDiv(completedCount, Len(tasks))

\* C5: the bar's value always lies in [0, 1].
C5_ValueInUnitInterval ==
    Live => (FracLE(Zero, value) /\ FracLE(value, One))

\* a bar showing a proper fraction
C5_Witness ==
    /\ Live /\ last.op \in {"setStatus", "update_task_bar"} /\ raised = "none"
    /\ value \notin {Zero, One}

\* C6: set_completed(val) on item i sets that item's completed flag and
\* changes nothing else: not the status, the index, the bar, nor any other
\* item.
C6_SetCompletedFrame ==
    [][last'.op = "set_completed" =>
         LET i == task_items[last'.arg[1]] IN
         /\ status' = status /\ index' = index /\ value' = value
         /\ task_items' = task_items
         /\ tasks' = [tasks EXCEPT ![i].completed = last'.arg[2]]]_vars

\* the last open item of a Working set has just been completed
C6_Witness ==
    /\ Live /\ status = "Working" /\ last.op = "set_completed"
    /\ Len(tasks) >= 2 /\ completedCount = Len(tasks)

\* C7: an ascending bias/size sweep yields
\* floor((sweep_stop - sweep_start) / sweep_step) + 1 Work Items.
C7_SweepCount ==
    (Live /\ Swept /\ step > 0 /\ start <= stop)
        => Len(tasks) = FloorDiv(stop - start, step) + 1

\* C8: every swept value of an ascending bias/size sweep lies in
\* [sweep_start, sweep_stop].
C8_SweptValuesInRange ==
    (Live /\ Swept /\ step > 0 /\ start <= stop)
        => \A k \in 1..Len(tasks) : start <= swept_value(k) /\ swept_value(k) <= stop

\* the sweep -1 .. 1 by 0.5 over the bias
C9_Example ==
    /\ data.sweep_parameter = "bias"
    /\ data.sweep_start = <<-1, 0>> /\ data.sweep_stop = <<1, 0>>
    /\ data.sweep_step = <<5, -1>>

\* C9: with a positive step the i-th (0-based) swept value is
\* sweep_start + i*sweep_step, so the values ascend strictly from
\* sweep_start; -1 .. 1 by 0.5 yields -1, -0.5, 0, 0.5, 1.
C9_SweptValuesAscend ==
    (Live /\ Swept /\ step > 0) =>
        /\ \A k \in 1..Len(tasks) : swept_value(k) = start + (k - 1) * step
        /\ \A k \in 1..Len(tasks) - 1 : swept_value(k) < swept_value(k + 1)
        /\ C9_Example =>
              [k \in 1..Len(tasks) |-> tasks[k].inner.bias]
                  = << <<-1, 0>>, <<-5, -1>>, <<0, 0>>, <<5, -1>>, <<1, 0>> >>

C9_Witness ==
    Live /\ C9_Example /\ Len(tasks) = 5 /\ swept_value(5) = stop

\* C10: an unswept specification expands to exactly one Image item, and the
\* number of items of any specification does not depend on repetitions.
C10_RepetitionsIgnored ==
    Live =>
        /\ data.sweep_parameter = "none" =>
              (Len(tasks) = 1 /\ tasks[1].dtype = "Image")
        /\ \A r \in 1..MaxRepetitions :
              Len(create_tasks([data EXCEPT !.repetitions = r])) = Len(tasks)

\* an unswept set built with more than one repetition
C10_Witness ==
    /\ Live /\ data.sweep_parameter = "none" /\ data.repetitions > 1
    /\ Len(tasks) = 1

\* C11 (as stated): a bias/size sweep with sweep_step = 0 and
\* sweep_start # sweep_stop fails with the error kind InvalidSweep.
C11_ZeroStepInvalidSweep ==
    (last.op = "__init__" /\ Swept /\ step = 0 /\ start # stop)
        => (pc = "failed" /\ raised = "InvalidSweep")

\* C12: when the expansion fails no Work Item has reached the caller and no
\* TaskSet exists.
C12_NoPartialResult ==
    pc = "failed" =>
        /\ raised # "none"
        /\ tasks = <<>> /\ task_items = <<>> /\ status = "None"

\* a sweep over distinct ends whose construction has failed
C12_Witness ==
    pc = "failed" /\ last.op = "__init__" /\ Swept /\ start # stop

\* the Work Items without their completed flags
items(ts) == [k \in 1..Len(ts) |-> [inner |-> ts[k].inner, dtype |-> ts[k].dtype]]

\* C16: the Work Items of a TaskSet are at all times the items create_tasks
\* returned, in its order, and the displayed TaskItems are these items, one
\* each, in the same order.
C16_ItemsFixed ==
    Live =>
        /\ items(tasks) = items(create_tasks(data))
        /\ Len(task_items) = Len(tasks)
        /\ \A k \in 1..Len(task_items) : task_items[k] = k

\* a set of several items on which every kind of operation has acted
C16_Witness ==
    /\ Live /\ Len(tasks) >= 3 /\ lifecycle = "terminal" /\ index # 0
    /\ completedCount = 2 /\ last.op = "dropSelf"

Window == pc = "window"
Signals == {"start_voltage", "stop_voltage", "step_voltage", "repetitions",
            "line_time", "lines_per_frame", "scan_size"}
\* the image count of the current inputs, step_voltage # 0
N == image_count(start_voltage, stop_voltage, step_voltage, repetitions)

\* C13 (as stated): for a positive step the displayed total image count is
\* repetitions * floor(|start - stop| / step), and it is not negative.
C13_TotalImageCount ==
    (Window /\ to_float(step_voltage) > 0) =>
        /\ total_images[2] >= 0
        /\ total_images[2] =
              repetitions * FloorDiv(Abs(to_float(start_voltage) - to_float(stop_voltage)),
                                     to_float(step_voltage))

\* C14 (as stated): when the step voltage is 0 the estimate slots do not
\* divide and do not crash; they signal InvalidSweep.
C14_ZeroStepSignalled ==
    (Window /\ last.op \in Signals /\ to_float(step_voltage) = 0)
        => raised = "InvalidSweep"

\* the number shown with unit u in a rendered duration, 0 if u is not shown
shown(txt, u) ==
    IF \E k \in 1..Len(txt) : txt[k][2] = u
    THEN txt[CHOOSE k \in 1..Len(txt) : txt[k][2] = u][1]
    ELSE 0

\* C15: the displayed duration decomposes T = 2 * lineTime * linesPerFrame *
\* imageCount exactly: days*86400 + hours*3600 + minutes*60 + seconds =
\* floor(T) with hours < 24, minutes < 60, seconds < 60; the days term is
\* shown iff days > 0 and hours, minutes, seconds are always shown;
\* lineTime 1, 256 lines, 8 images give 1h 8m 16s.
C15_DurationExact ==
    (Window /\ to_float(step_voltage) # 0) =>
        LET t == 2 * to_float(line_time) * LinesPerFrameItems[lines_per_frame] * N
            txt == time_to_finish[2]
            units == [k \in 1..Len(txt) |-> txt[k][2]]
        IN  /\ t >= 0
            /\ units \in {<<"h", "m", "s">>, <<"d", "h", "m", "s">>}
            /\ units[1] = "d" <=> t \div Second >= 86400
            /\ units[1] = "d" => shown(txt, "d") > 0
            /\ shown(txt, "d") * 86400 + shown(txt, "h") * 3600
                  + shown(txt, "m") * 60 + shown(txt, "s") = t \div Second
            /\ shown(txt, "h") \in 0..23 /\ shown(txt, "m") \in 0..59
            /\ shown(txt, "s") \in 0..59
            /\ (line_time = <<1, 0>> /\ LinesPerFrameItems[lines_per_frame] = 256 /\ N = 8)
                  => txt = << <<1, "h">>, <<8, "m">>, <<16, "s">> >>

\* a duration of more than a day has been rendered
C15_Witness ==
    /\ Window /\ to_float(step_voltage) # 0 /\ last.op \in Signals
    /\ Len(time_to_finish[2]) = 4 /\ shown(time_to_finish[2], "s") > 0

\* C17: whenever the step voltage is not 0 the two labels show the count and
\* the duration of the current inputs, and the TaskData built by add_task
\* carries the count and the duration of the inputs it carries.
C17_LabelsConsistent ==
    (Window /\ to_float(step_voltage) # 0) =>
        /\ total_images = <<"Total images", N>>
        /\ time_to_finish =
              <<"Time to finish",
                time_text(2 * to_float(line_time) * LinesPerFrameItems[lines_per_frame] * N)>>
        /\ last.op = "add_task" =>
              LET td == last.arg
                  n == image_count(td.start_voltage, td.stop_voltage,
                                   td.step_voltage, td.repetitions)
              IN  /\ td.total_images = n
                  /\ td.time_to_finish =
                        time_text(2 * to_float(td.line_time) * td.lines_per_frame * n)

\* a task added after the inputs were changed from their defaults
C17_Witness ==
    /\ Window /\ last.op = "add_task" /\ to_float(step_voltage) < 0
    /\ repetitions > 1 /\ line_time # DefaultLineTime
    /\ lines_per_frame # DefaultLinesIndex /\ start_voltage # DefaultStartVoltage
    /\ last.arg.total_images > 0

====
